---- MODULE Spec2Model ----
(***************************************************************************)
(* Page element indexing, selector resolution and navigator tools of the   *)
(* qandalf navigator (src/core/agents/navigator/browserContext.ts).        *)
(*                                                                         *)
(* The page is a forest of element nodes numbered in document order.  A    *)
(* node is a light child of its parent element (parent = 0 is the body of  *)
(* its frame's document) or a child of the shadow root attached to its     *)
(* parent (shadow = TRUE).                                                 *)
(***************************************************************************)
EXTENDS Integers, Sequences, FiniteSets, TLC

VARIABLES
    dom,            \* the elements of the page, in document order
    frames,         \* page.frames(): the main frame first, then the child frames
    currentFrame,   \* context.currentFrame: 0 when unset, else a position in frames
    expando,        \* el.__shadowPath left on each element by collectElements
    snap,           \* records of the latest get_page_content, while the DOM it saw stands
    prevSnap,       \* records of the get_page_content before it
    snapCount,      \* get_page_content calls since the DOM last changed, an action
                    \* ran or the target document was switched (capped)
    plPc,           \* wait_for_page_load: where the running call stands
    plTimeout,      \* wait_for_page_load: timeout (ms)
    plElapsed,      \* wait_for_page_load: Date.now() - startTime (ms)
    lastElementCount,
    stableCount,
    polled,         \* the counts the latest polls of the running call observed
    plResult,       \* wait_for_page_load: what the last call returned
    call,           \* the running or latest tool call and what came of it
    overlays,       \* the highlight overlay elements in the main document, in order
    removals,       \* overlays a pending fade-out timer will remove
    autoTimer,      \* window.__conductor_highlight_timeout__: 0 when no timer is
                    \* pending, else the overlay the highlight() that set it rendered
    sessions,       \* SseService.sessions and each session's agent and messages
    nav,            \* the AgentNavigator singleton: browserInstance, agent, destroy()
    browsers,       \* the browsers puppeteer.launch has started
    procs,          \* the AppService.execute calls and where each stands
    wt              \* the running or latest wait_for_text / accordion wait

pageVars == <<dom, frames, currentFrame>>
snapVars == <<expando, snap, prevSnap, snapCount>>
loadVars == <<plPc, plTimeout, plElapsed, lastElementCount, stableCount, polled, plResult>>
toolVars == <<call>>
overlayVars == <<overlays, removals, autoTimer>>
svcVars == <<sessions, nav, browsers, procs>>
waitVars == <<wt>>
vars == <<pageVars, snapVars, loadVars, toolVars, overlayVars, svcVars, waitVars>>

\* ------------------------------------------------------------------ bounds
MaxNodes == 3       \* elements of a generated tree-shaped page
MaxSnaps == 2       \* cap of the snapshot counter
MaxChain == 7       \* elements of a generated chain-shaped page
MaxLoadNodes == 3   \* elements of the page that loads while wait_for_page_load polls
MaxPolled == 4      \* how many of the latest polled counts are remembered
MaxOverlayIds == 2  \* overlay elements that exist or are awaited by a timer
MaxProcs == 2       \* execute() calls the controller starts
MaxSessions == 2    \* sessions ever created
MaxSteps == 2       \* ';'-separated steps of one task
MaxBrowsers == 2    \* browsers ever launched

Body == 0           \* document.body, as the parent of a top-level element
Null == -1          \* parentElement of a child of a shadow root

TreeTags == {"div", "button"}
Ids == {"", "a", "1"}
NoFrame == 0        \* context.currentFrame === undefined

\* ------------------------------------------------------------------ DOM
Nodes == 1..Len(dom)

\* The fields the classifier and the selector synthesizer read of an element.
Element(parent, shadow, tag, id, frame) ==
    [parent |-> parent, shadow |-> shadow, tag |-> tag, id |-> id, frame |-> frame,
     cursor |-> FALSE, textLen |-> 2, box |-> TRUE, hidden |-> FALSE,
     role |-> "", handler |-> "none", name |-> <<>>,
     text |-> <<>>, expanded |-> ""]

\* el.parentElement: null for a child of a shadow root
parentElement(n) == IF dom[n].shadow THEN Null ELSE dom[n].parent

\* el.parentNode instanceof ShadowRoot
parentIsShadowRoot(n) == dom[n].shadow

\* el.shadowRoot is set
hasShadowRoot(n) == \E m \in Nodes : dom[m].shadow /\ dom[m].parent = n

\* el.getRootNode(): the document of a frame, or the shadow root of a host
RECURSIVE getRootNode(_)
getRootNode(n) ==
    IF dom[n].shadow THEN [kind |-> "shadow", host |-> dom[n].parent, frame |-> dom[n].frame]
    ELSE IF dom[n].parent = Body THEN [kind |-> "doc", host |-> 0, frame |-> dom[n].frame]
    ELSE getRootNode(dom[n].parent)

Document(f) == [kind |-> "doc", host |-> 0, frame |-> f]
ShadowRootOf(h) == [kind |-> "shadow", host |-> h, frame |-> dom[h].frame]

\* root.querySelectorAll('*') as a set; document order is the order of the numbers
AllIn(root) == {n \in Nodes : getRootNode(n) = root}

\* parent.children filtered by tagName (the siblings of the same type, in order)
SameTagSiblings(n) ==
    {m \in Nodes : /\ dom[m].shadow = dom[n].shadow
                   /\ dom[m].parent = dom[n].parent
                   /\ dom[m].frame = dom[n].frame
                   /\ dom[m].tag = dom[n].tag}

\* siblings.indexOf(current) + 1
TypeIndex(n) == Cardinality({m \in SameTagSiblings(n) : m <= n})

RECURSIVE SortedSeq(_)
SortedSeq(S) ==
    IF S = {} THEN <<>>
    ELSE LET m == CHOOSE x \in S : \A y \in S : x <= y
         IN <<m>> \o SortedSeq(S \ {m})

\* ------------------------------------------------------------------ classifier
TextTags == {"span", "p"}
FrameTags == {"iframe", "frame", "frameset"}
InteractiveTags == {"a", "button", "input", "select", "textarea", "label"}
SelectorRoles == {"button", "link", "menuitem", "tab", "option", "listbox"}

\* el matches interactiveSelectors.join(', ')
MatchesInteractiveSelectors(n) ==
    \/ dom[n].tag \in {"a", "span", "p", "button", "input", "select", "textarea", "label"}
    \/ dom[n].tag \in FrameTags
    \/ dom[n].role \in SelectorRoles
    \/ dom[n].handler # "none"

isElementVisible(n) ==
    IF dom[n].hidden THEN FALSE
    ELSE IF dom[n].tag \in TextTags THEN dom[n].textLen > 0
    ELSE dom[n].box

maxDepth == 5

\* the while loop of isInsideButton, entered with current and depth
RECURSIVE InsideButtonFrom(_, _)
InsideButtonFrom(current, depth) ==
    IF current = Null \/ current = Body \/ depth >= maxDepth THEN FALSE
    ELSE IF dom[current].tag = "button" THEN TRUE
    ELSE IF parentIsShadowRoot(current) THEN FALSE
    ELSE InsideButtonFrom(parentElement(current), depth + 1)

\* an ancestor walk that gives up one level early
isInsideButtonShallow(n) == InsideButtonFrom(parentElement(n), 1)

\* isInsideButton(el): the walk starts at el.parentElement with depth 0
isInsideButton(n) == InsideButtonFrom(parentElement(n), 0)

\* a classifier that takes every text element of a shadow tree
isElementInteractiveShadowAny(n) ==
    IF dom[n].tag \in FrameTags THEN TRUE
    ELSE IF dom[n].cursor THEN TRUE
    ELSE IF dom[n].tag \in InteractiveTags THEN TRUE
    ELSE IF dom[n].tag \in TextTags THEN
        IF dom[n].textLen = 0 THEN FALSE
        ELSE IF dom[n].textLen < 2 THEN FALSE
        ELSE IF isInsideButton(n) THEN dom[n].cursor
        ELSE IF dom[n].handler # "none" THEN TRUE
        ELSE IF dom[n].role # "" THEN TRUE
        ELSE getRootNode(n).kind # "doc"
    ELSE IF dom[n].role # "" THEN TRUE
    ELSE dom[n].handler # "none"

\* isElementInteractive(el)
isElementInteractive(n) ==
    IF dom[n].tag \in FrameTags THEN TRUE
    ELSE IF dom[n].cursor THEN TRUE
    ELSE IF dom[n].tag \in InteractiveTags THEN TRUE
    ELSE IF dom[n].tag \in TextTags THEN
        IF dom[n].textLen = 0 THEN FALSE
        ELSE IF dom[n].textLen < 2 THEN FALSE
        ELSE IF isInsideButton(n) THEN dom[n].cursor
        ELSE IF dom[n].handler # "none" THEN TRUE
        ELSE IF dom[n].role # "" THEN TRUE
        ELSE IF getRootNode(n).kind # "doc" THEN dom[n].textLen >= 3
        ELSE FALSE
    ELSE IF dom[n].role # "" THEN TRUE
    ELSE dom[n].handler # "none"

\* ------------------------------------------------------------------ selectors
\* A selector is the sequence of its ' > '-joined segments; the empty sequence is
\* the empty string.  A segment is '#' + escaped id, or tag[:nth-of-type(nth)]
\* (nth = 0: no pseudo-class).
IdSeg(escaped) == [kind |-> "id", id |-> escaped, tag |-> "", nth |-> 0]
TagSeg(tag, nth) == [kind |-> "tag", id |-> "", tag |-> tag, nth |-> nth]

\* CSS.escape: an identifier that starts with a digit gets the digit as a code point
CssEscape(id) == IF id = "1" THEN "\\31 " ELSE id

\* the identifier a selector engine reads from an escaped identifier
CssUnescape(text) == IF text = "\\31 " THEN "1" ELSE text

SegMatches(n, seg) ==
    IF seg.kind = "id" THEN dom[n].id # "" /\ dom[n].id = CssUnescape(seg.id)
    ELSE dom[n].tag = seg.tag /\ (seg.nth = 0 \/ TypeIndex(n) = seg.nth)

\* n matches segments 1..i of sel, joined by child combinators
RECURSIVE MatchesUpTo(_, _, _)
MatchesUpTo(n, sel, i) ==
    /\ SegMatches(n, sel[i])
    /\ \/ i = 1
       \/ /\ i > 1
          /\ parentElement(n) \notin {Null, Body}
          /\ MatchesUpTo(parentElement(n), sel, i - 1)

\* root.querySelectorAll(sel); the empty string is a syntax error and matches nothing
querySelectorAll(root, sel) ==
    IF sel = <<>> THEN {}
    ELSE {n \in AllIn(root) : MatchesUpTo(n, sel, Len(sel))}

\* the path built by the while loop of getUniqueSelector from `current` upward
RECURSIVE SelectorPath(_)
SelectorPath(current) ==
    IF current = Null \/ current = Body THEN <<>>
    ELSE IF parentIsShadowRoot(current) THEN <<>>
    ELSE IF dom[current].id # "" THEN <<IdSeg(CssEscape(dom[current].id))>>
    ELSE SelectorPath(parentElement(current)) \o
         <<TagSeg(dom[current].tag,
                  IF Cardinality(SameTagSiblings(current)) > 1
                  THEN TypeIndex(current) ELSE 0)>>

\* getUniqueSelector without the id shortcut for the element itself
getUniqueSelectorNoOwnId(n, inShadow) ==
    [sel |-> IF parentIsShadowRoot(n) THEN <<>>
             ELSE SelectorPath(parentElement(n)) \o
                  <<TagSeg(dom[n].tag,
                           IF Cardinality(SameTagSiblings(n)) > 1
                           THEN TypeIndex(n) ELSE 0)>>,
     uniqChecked |-> FALSE]

\* getUniqueSelector that verifies document uniqueness for shadow elements too
getUniqueSelectorAlwaysChecks(n, inShadow) ==
    LET idSelector == <<IdSeg(CssEscape(dom[n].id))>>
    IN IF dom[n].id # "" /\ Cardinality(querySelectorAll(Document(dom[n].frame), idSelector)) = 1
       THEN [sel |-> idSelector, uniqChecked |-> TRUE]
       ELSE [sel |-> SelectorPath(n), uniqChecked |-> dom[n].id # ""]

\* getUniqueSelector(element, inShadow): the selector, and whether the
\* document-wide uniqueness of the id was queried on the way
getUniqueSelector(n, inShadow) ==
    LET idSelector == <<IdSeg(CssEscape(dom[n].id))>>
    IN IF dom[n].id # "" /\ inShadow
       THEN [sel |-> idSelector, uniqChecked |-> FALSE]
       ELSE IF dom[n].id # ""
               /\ Cardinality(querySelectorAll(Document(dom[n].frame), idSelector)) = 1
       THEN [sel |-> idSelector, uniqChecked |-> TRUE]
       ELSE [sel |-> SelectorPath(n), uniqChecked |-> dom[n].id # ""]

\* ------------------------------------------------------------------ snapshot
\* a tool call: the tool and its selector
\* (switch_to_frame: its input string), whether it is running, returned a string
\* or threw, the kind of string or error, the element it acted on and how that
\* element was resolved, the document of its targetContext, and the element the
\* overlay it rendered is bound to (0: none), and the frames a 'Frame not found'
\* string lists
NoCall ==
    [tool |-> "none", selector |-> <<>>, input |-> <<>>, phase |-> "none", kind |-> "",
     acted |-> 0, via |-> "none", target |-> 0, highlighted |-> 0, listed |-> <<>>]

\* collectElements(root, shadowPath): the visible interactive elements of root in
\* document order, then those of every shadow root below it; each with the
\* __shadowPath the walker stamps on it
RECURSIVE collectElements(_, _)
collectElements(root, shadowPath) ==
    LET all == SortedSeq(AllIn(root))
        keep(n) == /\ MatchesInteractiveSelectors(n)
                   /\ isElementVisible(n)
                   /\ isElementInteractive(n)
        found == SelectSeq(all, keep)
        RECURSIVE below(_)
        below(i) ==
            IF i > Len(all) THEN <<>>
            ELSE (IF hasShadowRoot(all[i])
                  THEN collectElements(ShadowRootOf(all[i]), Append(shadowPath, i - 1))
                  ELSE <<>>) \o below(i + 1)
    IN [k \in 1..Len(found) |-> [node |-> found[k], path |-> shadowPath]] \o below(1)

\* the document get_page_content, click and type are evaluated in:
\* context.currentFrame || context.page
TargetDoc == IF currentFrame = NoFrame THEN 0 ELSE frames[currentFrame].doc

\* the __shadowPath read back from an element that was stamped one call earlier
\* (or never): the read placed before the write
ShadowPathStale(collected, k) ==
    IF expando[collected[k].node].set THEN expando[collected[k].node].path ELSE <<>>

\* (el as any).__shadowPath || [] of the k-th collected element
ShadowPathRead(collected, k) == collected[k].path

\* a parent lookup that reports the position in the list counted from one
RECURSIVE ParentIdOneBased(_, _, _)
ParentIdOneBased(parent, collected, k) ==
    IF parent = Null \/ parent = Body THEN -1
    ELSE IF \E j \in 1..(k - 1) : collected[j].node = parent
         THEN CHOOSE j \in 1..(k - 1) : collected[j].node = parent
         ELSE ParentIdOneBased(parentElement(parent), collected, k)

\* a parent lookup that asks the map about the immediate parent only
ParentIdImmediate(parent, collected, k) ==
    IF parent = Null \/ parent = Body THEN -1
    ELSE IF \E j \in 1..(k - 1) : collected[j].node = parent
         THEN (CHOOSE j \in 1..(k - 1) : collected[j].node = parent) - 1
         ELSE -1

\* parentId: the index of the nearest parentElement already in elementIndexMap
\* (-1: undefined); the map holds the elements before position k
RECURSIVE ParentIdFrom(_, _, _)
ParentIdFrom(parent, collected, k) ==
    IF parent = Null \/ parent = Body THEN -1
    ELSE IF \E j \in 1..(k - 1) : collected[j].node = parent
         THEN (CHOOSE j \in 1..(k - 1) : collected[j].node = parent) - 1
         ELSE ParentIdFrom(parentElement(parent), collected, k)

\* the results array of get_page_content; index is currentIndex = results.length
\* at the push, the value stored in elementIndexMap (k - 1 records were pushed
\* before the k-th element: the loop pushes one record per element)
Records(collected) ==
    [k \in 1..Len(collected) |->
        LET n == collected[k].node
            inShadowDom == Len(ShadowPathRead(collected, k)) > 0
            unique == getUniqueSelector(n, inShadowDom)
        IN [node |-> n,
            index |-> k - 1,
            tag |-> dom[n].tag,
            id |-> dom[n].id,
            selector |-> unique.sel,
            uniqChecked |-> unique.uniqChecked,
            parentId |-> ParentIdFrom(parentElement(n), collected, k),
            inShadowDom |-> inShadowDom]]

Min(a, b) == IF a < b THEN a ELSE b

\* get_page_content
GetPageContent ==
    LET collected == collectElements(Document(TargetDoc), <<>>)
    IN /\ snap' = Records(collected)
       /\ prevSnap' = snap
       /\ snapCount' = Min(snapCount + 1, MaxSnaps)
       /\ expando' = [n \in Nodes |->
                        IF \E k \in 1..Len(collected) : collected[k].node = n
                        THEN [set |-> TRUE,
                              path |-> collected[CHOOSE k \in 1..Len(collected) :
                                                   collected[k].node = n].path]
                        ELSE expando[n]]
       /\ call.phase # "running"
       /\ call' = [NoCall EXCEPT !.tool = "get_page_content", !.phase = "returned",
                                 !.kind = "content", !.target = TargetDoc]
       /\ UNCHANGED <<svcVars, waitVars, pageVars, loadVars, overlayVars>>

\* the page changes the id attribute of one element
SetId ==
    \E n \in Nodes, id \in Ids :
        /\ dom[n].id # id
        /\ dom' = [dom EXCEPT ![n].id = id]
        /\ snap' = <<>>
        /\ prevSnap' = <<>>
        /\ snapCount' = 0
        /\ UNCHANGED <<svcVars, waitVars, frames, currentFrame, expando, loadVars, toolVars, overlayVars>>

\* ------------------------------------------------------------------ pages
NoResult == [kind |-> "none", count |-> 0]

InitToolVars ==
    /\ call = NoCall
    /\ overlays = <<>>
    /\ removals = {}
    /\ autoTimer = 0

InitSnapVars ==
    /\ expando = [n \in Nodes |-> [set |-> FALSE, path |-> <<>>]]
    /\ snap = <<>>
    /\ prevSnap = <<>>
    /\ snapCount = 0

InitLoadVars ==
    /\ plPc = "idle"
    /\ plTimeout = 0
    /\ plElapsed = 0
    /\ lastElementCount = 0
    /\ stableCount = 0
    /\ polled = <<>>
    /\ plResult = NoResult

\* ------------------------------------------------------------------ service state
ProcIds == 1..MaxProcs
SessionIds == 1..MaxSessions

\* an execute() call the controller has not started yet
NoProc == [pc |-> "idle", uuid |-> 0, steps |-> 0, step |-> 0, error |-> ""]

\* a session id before createSession() has produced it
NoSession == [state |-> "none", agent |-> FALSE, sent |-> <<>>]

\* new AgentNavigator(): browserInstance and agent are undefined (0); no
\* destroy() call is awaiting browser.close() (closing: the browser it closes).
\* History kept beside the fields: the browsers that were closed, and whether a
\* create() call has run to its end since construction or since the last
\* destroy() cleared the fields
NoNav == [browserInstance |-> 0, agent |-> 0, closing |-> 0, closed |-> {},
          created |-> FALSE]

InitSvcVars ==
    /\ sessions = [s \in SessionIds |-> NoSession]
    /\ nav = NoNav
    /\ browsers = {}
    /\ procs = [p \in ProcIds |-> NoProc]

\* no wait_for_text / wait_for_accordion_expand call made yet
NoWait ==
    [tool |-> "none", pc |-> "idle", text |-> <<>>, selector |-> <<>>, target |-> 0,
     timeout |-> 0, elapsed |-> 0, result |-> "none", polls |-> 0,
     present |-> FALSE, seen |-> "none", earlier |-> {}]

InitWaitVars == wt = NoWait

MainFrame == [name |-> <<>>, url |-> <<"u">>, doc |-> 0]

\* the ancestors of n, n included
RECURSIVE AncestorsOrSelf(_, _)
AncestorsOrSelf(d, n) ==
    IF n = 0 THEN {} ELSE {n} \cup AncestorsOrSelf(d, d[n].parent)

\* d numbers its elements in document order, and only a top-level element has
\* the body as its parent
WellFormed(d) ==
    \A n \in 1..Len(d) :
        /\ d[n].parent < n
        /\ d[n].parent = 0 => ~d[n].shadow
        /\ n > 1 => d[n].parent \in {0} \cup AncestorsOrSelf(d, n - 1)

TreeElements ==
    {Element(p, s, t, i, 0) :
        p \in 0..(MaxNodes - 1), s \in BOOLEAN, t \in TreeTags, i \in Ids}

\* the well-formed pages of k elements, built one element at a time
RECURSIVE TreePages(_)
TreePages(k) ==
    IF k = 0 THEN {<<>>}
    ELSE {d \in {Append(shorter, e) : shorter \in TreePages(k - 1), e \in TreeElements} :
             WellFormed(d)}

InitSnapshot ==
    /\ \E k \in 1..MaxNodes : dom \in TreePages(k)
    /\ frames = <<MainFrame>>
    /\ currentFrame = NoFrame
    /\ InitSnapVars
    /\ InitLoadVars
    /\ InitToolVars
    /\ InitSvcVars
    /\ InitWaitVars

NextSnapshot == GetPageContent \/ SetId

SpecSnapshot == InitSnapshot /\ [][NextSnapshot]_vars

\* a page that is one chain of nested elements: the innermost is a text element,
\* at most one ancestor (the j-th element) is a button, and the b-th element, if
\* any, is the child of a shadow root attached to the element above it
LeafAttrs ==
    {<<"", "none">>, <<"button", "none">>, <<"other", "none">>,
     <<"", "onclick">>, <<"", "tabindex">>}

ChainPage(len, j, b, tag, textLen, cursor, attrs) ==
    [n \in 1..len |->
        IF n < len
        THEN Element(n - 1, b = n, IF n = j THEN "button" ELSE "div", "", 0)
        ELSE [Element(n - 1, b = n, tag, "", 0) EXCEPT
                 !.textLen = textLen, !.cursor = cursor,
                 !.role = attrs[1], !.handler = attrs[2]]]

ChainPages ==
    {ChainPage(len, j, b, tag, textLen, cursor, attrs) :
        len \in 2..MaxChain, j \in 0..(MaxChain - 1), b \in {0} \cup 2..MaxChain,
        tag \in TextTags, textLen \in 0..3, cursor \in BOOLEAN, attrs \in LeafAttrs}

InitClassify ==
    /\ dom \in ChainPages
    /\ frames = <<MainFrame>>
    /\ currentFrame = NoFrame
    /\ InitSnapVars
    /\ InitLoadVars
    /\ InitToolVars
    /\ InitSvcVars
    /\ InitWaitVars

\* the page changes the computed cursor style of its innermost element
SetCursor ==
    /\ dom' = [dom EXCEPT ![Len(dom)].cursor = ~@]
    /\ snap' = <<>>
    /\ prevSnap' = <<>>
    /\ snapCount' = 0
    /\ UNCHANGED <<svcVars, waitVars, frames, currentFrame, expando, loadVars, toolVars, overlayVars>>

NextClassify == GetPageContent \/ SetCursor

SpecClassify == InitClassify /\ [][NextClassify]_vars

\* ------------------------------------------------------------------ wait_for_page_load
defaultTimeout == 30000
checkInterval == 500
requiredStableChecks == 3
idleTime == 500
networkIdleTimeout == 5000

TimeoutInputs == {0, 1500}

CountedTags == {"a", "button", "input", "select", "textarea"}
CountedRoles == {"button", "link", "menuitem"}

\* countElements(root): the elements of root matching the selector list, plus
\* those of every shadow root below it
RECURSIVE countElements(_)
countElements(root) ==
    LET all == SortedSeq(AllIn(root))
        counted(n) == \/ dom[n].tag \in CountedTags
                      \/ dom[n].role \in CountedRoles
                      \/ dom[n].handler = "onclick"
        RECURSIVE below(_)
        below(i) ==
            IF i > Len(all) THEN 0
            ELSE (IF hasShadowRoot(all[i]) THEN countElements(ShadowRootOf(all[i])) ELSE 0)
                 + below(i + 1)
    IN Cardinality({n \in AllIn(root) : counted(n)}) + below(1)

\* the stability update that keeps stableCount when the count changes
PollOutcomeNoReset(elementCount, last, stable) ==
    IF elementCount = last /\ elementCount > 0
    THEN [stable |-> stable + 1, last |-> last,
          done |-> stable + 1 >= requiredStableChecks]
    ELSE [stable |-> stable, last |-> elementCount, done |-> FALSE]

\* the stability update that does not record the changed count
PollOutcomeKeepsLast(elementCount, last, stable) ==
    IF elementCount = last /\ elementCount > 0
    THEN [stable |-> stable + 1, last |-> last,
          done |-> stable + 1 >= requiredStableChecks]
    ELSE [stable |-> 0, last |-> last, done |-> FALSE]

\* the if/else after a poll: the new stableCount and lastElementCount, and
\* whether the call returns success
PollOutcome(elementCount, last, stable) ==
    IF elementCount = last /\ elementCount > 0
    THEN [stable |-> stable + 1, last |-> last,
          done |-> stable + 1 >= requiredStableChecks]
    ELSE [stable |-> 0, last |-> elementCount, done |-> FALSE]

\* the latest MaxPolled counts, the newest last
Remember(window, c) ==
    IF Len(window) < MaxPolled THEN Append(window, c)
    ELSE Append(Tail(window), c)

StartWaitForPageLoad ==
    \E t \in TimeoutInputs :
        /\ plPc = "idle"
        /\ plPc' = "test"
        /\ plTimeout' = (IF t = 0 THEN defaultTimeout ELSE t)
        /\ plElapsed' = 0
        /\ lastElementCount' = 0
        /\ stableCount' = 0
        /\ polled' = <<>>
        /\ plResult' = NoResult
        /\ UNCHANGED <<svcVars, waitVars, pageVars, snapVars, toolVars, overlayVars>>

\* a loop test that lets the loop run once more when the timeout is just reached
LoopTestInclusive ==
    /\ plPc = "test"
    /\ IF plElapsed <= plTimeout
       THEN plPc' = "network" /\ plResult' = plResult
       ELSE /\ plPc' = "idle"
            /\ plResult' = [kind |-> "timeout", count |-> lastElementCount]
    /\ UNCHANGED <<svcVars, waitVars, plTimeout, plElapsed, lastElementCount, stableCount, polled,
                   pageVars, snapVars, toolVars, overlayVars>>

\* while (Date.now() - startTime < timeout), and the timeout return after it
LoopTest ==
    /\ plPc = "test"
    /\ IF plElapsed < plTimeout
       THEN plPc' = "network" /\ plResult' = plResult
       ELSE /\ plPc' = "idle"
            /\ plResult' = [kind |-> "timeout", count |-> lastElementCount]
    /\ UNCHANGED <<svcVars, waitVars, plTimeout, plElapsed, lastElementCount, stableCount, polled,
                   pageVars, snapVars, toolVars, overlayVars>>

\* waitForNetworkIdle: idle after idleTime at the earliest, given up at its timeout
NetworkIdle ==
    \E d \in {idleTime, networkIdleTimeout} :
        /\ plPc = "network"
        /\ plPc' = "count"
        /\ plElapsed' = plElapsed + d
        /\ UNCHANGED <<svcVars, waitVars, plTimeout, lastElementCount, stableCount, polled, plResult,
                       pageVars, snapVars, toolVars, overlayVars>>

\* the count of one poll and the stability check on it
CountPoll ==
    LET elementCount == countElements(Document(0))
        o == PollOutcome(elementCount, lastElementCount, stableCount)
    IN /\ plPc = "count"
       /\ polled' = Remember(polled, elementCount)
       /\ stableCount' = o.stable
       /\ lastElementCount' = o.last
       /\ IF o.done
          THEN plPc' = "idle" /\ plResult' = [kind |-> "success", count |-> elementCount]
          ELSE plPc' = "sleep" /\ plResult' = plResult
       /\ UNCHANGED <<svcVars, waitVars, plTimeout, plElapsed, pageVars, snapVars, toolVars, overlayVars>>

Sleep ==
    /\ plPc = "sleep"
    /\ plPc' = "test"
    /\ plElapsed' = plElapsed + checkInterval
    /\ UNCHANGED <<svcVars, waitVars, plTimeout, lastElementCount, stableCount, polled, plResult,
                   pageVars, snapVars, toolVars, overlayVars>>

\* the n-th element of the loading page: a button, then a host, then a button in
\* the host's shadow root, and so on
LoadElement(n) ==
    IF n % 3 = 1 THEN Element(0, FALSE, "button", "", 0)
    ELSE IF n % 3 = 2 THEN Element(0, FALSE, "div", "", 0)
    ELSE Element(n - 1, TRUE, "button", "", 0)

\* the page renders one more element
PageGrows ==
    /\ Len(dom) < MaxLoadNodes
    /\ dom' = Append(dom, LoadElement(Len(dom) + 1))
    /\ expando' = Append(expando, [set |-> FALSE, path |-> <<>>])
    /\ UNCHANGED <<svcVars, waitVars, frames, currentFrame, snap, prevSnap, snapCount, loadVars,
                   toolVars, overlayVars>>

\* the page removes its last element
PageShrinks ==
    /\ Len(dom) > 0
    /\ dom' = SubSeq(dom, 1, Len(dom) - 1)
    /\ expando' = SubSeq(expando, 1, Len(dom) - 1)
    /\ UNCHANGED <<svcVars, waitVars, frames, currentFrame, snap, prevSnap, snapCount, loadVars,
                   toolVars, overlayVars>>

InitLoad ==
    /\ dom = <<>>
    /\ frames = <<MainFrame>>
    /\ currentFrame = NoFrame
    /\ InitSnapVars
    /\ InitLoadVars
    /\ InitToolVars
    /\ InitSvcVars
    /\ InitWaitVars

NextLoad ==
    \/ StartWaitForPageLoad
    \/ LoopTest
    \/ NetworkIdle
    \/ CountPoll
    \/ Sleep
    \/ PageGrows
    \/ PageShrinks

SpecLoad == InitLoad /\ [][NextLoad]_vars

\* ------------------------------------------------------------------ action resolver
First(S) == IF S = {} THEN 0 ELSE CHOOSE x \in S : \A y \in S : x <= y

\* puppeteer's visibility test of waitForSelector(..., {visible: true})
Visible(n) == ~dom[n].hidden /\ dom[n].box

\* targetContext.waitForSelector(selector, {visible: true, timeout}): the first
\* match in the light DOM of the frame's document, if it is visible (0: the wait
\* times out)
WaitForSelector(doc, sel) ==
    LET el == First(querySelectorAll(Document(doc), sel))
    IN IF el # 0 /\ Visible(el) THEN el ELSE 0

\* findElement(root) of the shadow helpers: root.querySelector(sel), else the
\* first hit in the shadow roots below root, in document order (0: null)
RECURSIVE findElement(_, _)
findElement(root, sel) ==
    LET found == First(querySelectorAll(root, sel))
        all == SortedSeq(AllIn(root))
        RECURSIVE below(_)
        below(i) ==
            IF i > Len(all) THEN 0
            ELSE LET r == IF hasShadowRoot(all[i])
                          THEN findElement(ShadowRootOf(all[i]), sel) ELSE 0
                 IN IF r # 0 THEN r ELSE below(i + 1)
    IN IF found # 0 THEN found ELSE below(1)

\* findElementWithShadowDom(selector): evaluated in the main frame of the page
findElementWithShadowDom(sel) == findElement(Document(0), sel) # 0

\* ------------------------------------------------------------------ highlighter
OverlayIds == {overlays[i].id : i \in 1..Len(overlays)}

\* document.getElementById('__conductor_highlight_overlay__'): the first overlay
ExistingOverlay == IF overlays = <<>> THEN 0 ELSE overlays[1].id

\* a removal that looks the overlay up in the document when it runs
WithoutOverlayByLookup(seq, id) == IF seq = <<>> THEN seq ELSE Tail(seq)

\* overlay.remove() on the overlay element `id`: nothing when it left the page
WithoutOverlay(seq, id) == SelectSeq(seq, LAMBDA o : o.id # id)

FreshOverlayId(seq, pending) ==
    First({i \in 1..MaxOverlayIds : i \notin {seq[k].id : k \in 1..Len(seq)} \cup pending})

\* removeHighlight: fade the overlay and schedule its removal after 150 ms
RemoveHighlight ==
    IF ExistingOverlay = 0 THEN [overlays |-> overlays, removals |-> removals]
    ELSE [overlays |-> [i \in 1..Len(overlays) |->
                           IF i = 1 THEN [overlays[i] EXCEPT !.faded = TRUE]
                           ELSE overlays[i]],
          removals |-> removals \cup {ExistingOverlay}]

\* a highlight that appends its overlay without removing the existing one
HighlightKeepsExisting(seq, sel) ==
    LET el == First(querySelectorAll(Document(0), sel))
    IN IF el = 0
       THEN [overlays |-> seq, autoTimer |-> 0, el |-> 0]
       ELSE [overlays |-> Append(seq, [id |-> FreshOverlayId(seq, removals),
                                       el |-> el, faded |-> FALSE]),
             autoTimer |-> FreshOverlayId(seq, removals), el |-> el]

\* highlight(context, selector) on overlays `seq`: drop the existing overlay and
\* the pending auto-remove timer; when document.querySelector finds the selector
\* in the main document, append a new overlay bound to that element and start
\* the auto-remove timer
Highlight(seq, sel) ==
    LET rest == IF seq = <<>> THEN seq ELSE WithoutOverlay(seq, seq[1].id)
        el == First(querySelectorAll(Document(0), sel))
    IN IF el = 0
       THEN [overlays |-> rest, autoTimer |-> 0, el |-> 0]
       ELSE [overlays |-> Append(rest, [id |-> FreshOverlayId(rest, removals),
                                        el |-> el, faded |-> FALSE]),
             autoTimer |-> FreshOverlayId(rest, removals), el |-> el]

\* the 3000 ms timer of highlight fires: fade the overlay that is in the document
\* now and schedule its removal after 300 ms
AutoTimerFires ==
    /\ autoTimer # 0
    /\ autoTimer' = 0
    /\ overlays' = RemoveHighlight.overlays
    /\ removals' = RemoveHighlight.removals
    /\ UNCHANGED <<svcVars, waitVars, pageVars, snapVars, loadVars, toolVars>>

\* a fade-out timer fires: overlay.remove() on the overlay it captured
RemovalFires ==
    \E id \in removals :
        /\ removals' = removals \ {id}
        /\ overlays' = WithoutOverlay(overlays, id)
        /\ UNCHANGED <<svcVars, waitVars, autoTimer, pageVars, snapVars, loadVars, toolVars>>

\* ------------------------------------------------------------------ tools
ActionTools == {"element_click", "element_type", "element_select_option"}

\* what a click or type call comes to without the shadow-root fallback
ResolveNoFallback(tool, doc, sel) ==
    LET direct == WaitForSelector(doc, sel)
    IN IF direct # 0
       THEN [phase |-> "returned", kind |-> "done", acted |-> direct, via |-> "direct",
             highlight |-> TRUE]
       ELSE [phase |-> "threw", kind |-> "not_found", acted |-> 0, via |-> "none",
             highlight |-> FALSE]

\* what the body of a tool comes to once removeHighlight has run: the try block
\* on the target context and, for click and type, the catch block's search of
\* the page; whether highlight() was reached
Resolve(tool, doc, sel) ==
    LET direct == WaitForSelector(doc, sel)
    IN IF tool = "element_select_option"
       THEN IF direct = 0
            THEN [phase |-> "threw", kind |-> "timeout", acted |-> 0, via |-> "none",
                  highlight |-> FALSE]
            ELSE IF dom[direct].tag # "select"
            THEN [phase |-> "threw", kind |-> "not_select", acted |-> 0, via |-> "none",
                  highlight |-> TRUE]
            ELSE [phase |-> "returned", kind |-> "done", acted |-> direct,
                  via |-> "direct", highlight |-> TRUE]
       ELSE IF direct # 0
            THEN [phase |-> "returned", kind |-> "done", acted |-> direct,
                  via |-> "direct", highlight |-> TRUE]
            ELSE IF ~findElementWithShadowDom(sel)
            THEN [phase |-> "threw", kind |-> "not_found", acted |-> 0, via |-> "none",
                  highlight |-> FALSE]
            ELSE [phase |-> "returned", kind |-> "done",
                  acted |-> findElement(Document(0), sel), via |-> "fallback",
                  highlight |-> TRUE]

\* element_click / element_type / element_select_option up to the first wait:
\* removeHighlight, and the choice of the target context
BeginAction(tool, sel) ==
    /\ call.phase # "running"
    /\ Cardinality(OverlayIds \cup removals) < MaxOverlayIds
    /\ overlays' = RemoveHighlight.overlays
    /\ removals' = RemoveHighlight.removals
    /\ call' = [NoCall EXCEPT !.tool = tool, !.selector = sel, !.phase = "running",
                              !.target = TargetDoc]
    /\ snap' = <<>>
    /\ prevSnap' = <<>>
    /\ snapCount' = 0
    /\ UNCHANGED <<svcVars, waitVars, autoTimer, expando, pageVars, loadVars>>

\* the rest of the tool: resolve the element, highlight it, act on it
FinishAction ==
    /\ call.phase = "running"
    /\ LET r == Resolve(call.tool, call.target, call.selector)
           h == Highlight(overlays, call.selector)
       IN /\ call' = [call EXCEPT !.phase = r.phase, !.kind = r.kind,
                                  !.acted = r.acted, !.via = r.via,
                                  !.highlighted = IF r.highlight THEN h.el ELSE 0]
          /\ overlays' = (IF r.highlight THEN h.overlays ELSE overlays)
          /\ autoTimer' = (IF r.highlight THEN h.autoTimer ELSE autoTimer)
    /\ UNCHANGED <<svcVars, waitVars, removals, pageVars, snapVars, loadVars>>

\* ------------------------------------------------------------------ switch_to_frame
\* Frame names, urls and the tool's input are strings, kept as sequences of
\* characters.
StrMain == <<"m", "a", "i", "n">>
StrDefault == <<"d", "e", "f", "a", "u", "l", "t">>
StrIframe == <<"i", "f", "r", "a", "m", "e">>
Digits == {"0", "1", "2", "3", "4", "5", "6", "7", "8", "9"}

\* the characters of an element id (ids have at most one character)
Chars(id) == IF id = "" THEN <<>> ELSE <<id>>

\* url.includes(sel)
Includes(str, sub) ==
    \E o \in 0..(Len(str) - Len(sub)) : SubSeq(str, o + 1, o + Len(sub)) = sub

\* /^\d+$/.test(sel)
IsDigits(str) == Len(str) > 0 /\ \A i \in 1..Len(str) : str[i] \in Digits

DigitValue(c) == CHOOSE v \in 0..9 : <<"0", "1", "2", "3", "4", "5", "6", "7", "8", "9">>[v + 1] = c

\* parseInt(sel, 10) of a string of digits
RECURSIVE ParseInt(_)
ParseInt(str) ==
    IF str = <<>> THEN 0
    ELSE 10 * ParseInt(SubSeq(str, 1, Len(str) - 1)) + DigitValue(str[Len(str)])

\* frames.find(f => f.name() === name): the position of the first such frame, or 0
FindByName(name) == First({i \in 1..Len(frames) : frames[i].name = name})

\* frames.find(f => f.url().includes(sel))
FindByUrl(sel) == First({i \in 1..Len(frames) : Includes(frames[i].url, sel)})

\* frames[index] for an index string within range
FindByIndex(sel) ==
    IF IsDigits(sel) /\ ParseInt(sel) >= 0 /\ ParseInt(sel) < Len(frames)
    THEN ParseInt(sel) + 1 ELSE 0

\* the selector the input reads as in page.$(sel): '#c', or 'iframe'; every other
\* input of the model matches no element or is no selector at all
AsSelector(sel) ==
    IF Len(sel) = 2 /\ sel[1] = "#" THEN <<IdSeg(sel[2])>>
    ELSE IF sel = StrIframe THEN <<TagSeg("iframe", 0)>>
    ELSE <<>>

\* page.$(sel), then el.name || el.id, then the frame of that name
FindByElement(sel) ==
    LET el == First(querySelectorAll(Document(0), AsSelector(sel)))
        frameName == IF el = 0 THEN <<>>
                     ELSE IF dom[el].name # <<>> THEN dom[el].name
                     ELSE Chars(dom[el].id)
    IN IF frameName = <<>> THEN 0 ELSE FindByName(frameName)

\* the four lookups of switch_to_frame, in the order the tool tries them
LookupFrame(sel) ==
    IF FindByName(sel) # 0 THEN FindByName(sel)
    ELSE IF FindByUrl(sel) # 0 THEN FindByUrl(sel)
    ELSE IF FindByIndex(sel) # 0 THEN FindByIndex(sel)
    ELSE FindByElement(sel)

\* frames.map((f, i) => `[${i}] name="${f.name()}" url="${f.url()}"`)
AvailableFrames ==
    [i \in 1..Len(frames) |-> [index |-> i - 1, name |-> frames[i].name, url |-> frames[i].url]]

\* switch_to_frame that looks the frames up before it tests for "main"
SwitchTargetFramesFirst(sel) ==
    IF LookupFrame(sel) # 0
    THEN [kind |-> "switched", frame |-> LookupFrame(sel), listed |-> <<>>]
    ELSE IF sel = StrMain \/ sel = StrDefault
    THEN [kind |-> "main", frame |-> NoFrame, listed |-> <<>>]
    ELSE [kind |-> "frame_not_found", frame |-> currentFrame, listed |-> AvailableFrames]

\* switch_to_frame that falls back to the main page when it finds no frame
SwitchTargetMissExitsFrames(sel) ==
    IF sel = StrMain \/ sel = StrDefault
    THEN [kind |-> "main", frame |-> NoFrame, listed |-> <<>>]
    ELSE IF LookupFrame(sel) # 0
    THEN [kind |-> "switched", frame |-> LookupFrame(sel), listed |-> <<>>]
    ELSE [kind |-> "frame_not_found", frame |-> NoFrame, listed |-> AvailableFrames]

\* what switch_to_frame returns, the frame that is current after it, and the
\* frames its 'Frame not found' string lists
SwitchTarget(sel) ==
    IF sel = StrMain \/ sel = StrDefault
    THEN [kind |-> "main", frame |-> NoFrame, listed |-> <<>>]
    ELSE IF LookupFrame(sel) # 0
    THEN [kind |-> "switched", frame |-> LookupFrame(sel), listed |-> <<>>]
    ELSE [kind |-> "frame_not_found", frame |-> currentFrame, listed |-> AvailableFrames]

SwitchToFrame(sel) ==
    /\ call.phase # "running"
    /\ currentFrame' = SwitchTarget(sel).frame
    /\ call' = [NoCall EXCEPT !.tool = "switch_to_frame", !.input = sel,
                              !.phase = "returned", !.kind = SwitchTarget(sel).kind,
                              !.listed = SwitchTarget(sel).listed]
    /\ snap' = <<>>
    /\ prevSnap' = <<>>
    /\ snapCount' = 0
    /\ UNCHANGED <<svcVars, waitVars, dom, frames, expando, loadVars, overlayVars>>

\* ------------------------------------------------------------------ the navigator
\* The page the tools run against: a button, a shadow host with a select in its
\* shadow root, a select that may have no box, and an iframe whose document holds
\* a button.
ToolPage(selectBox, frameName) ==
    << Element(0, FALSE, "button", "a", 0),
       Element(0, FALSE, "div", "h", 0),
       Element(2, TRUE, "select", "t", 0),
       [Element(0, FALSE, "select", "l", 0) EXCEPT !.box = selectBox],
       [Element(0, FALSE, "iframe", "f", 0) EXCEPT !.name = frameName],
       Element(0, FALSE, "button", "g", 1) >>

ChildFrameNames == {<<"c">>, StrMain}
ChildFrameUrls == {<<"v", "1">>, <<"v", "0">>}

ActionSelectors ==
    {<<IdSeg("a")>>, <<IdSeg("t")>>, <<IdSeg("l")>>, <<IdSeg("g")>>, <<IdSeg("z")>>}

SwitchInputs ==
    {StrMain, StrDefault, <<"c">>, <<"0">>, <<"1">>, <<"#", "f">>, <<"x">>}

Init ==
    /\ \E selectBox \in BOOLEAN, frameName \in ChildFrameNames, url \in ChildFrameUrls :
          /\ dom = ToolPage(selectBox, frameName)
          /\ frames = <<MainFrame, [name |-> frameName, url |-> url, doc |-> 1]>>
    /\ currentFrame = NoFrame
    /\ InitSnapVars
    /\ InitLoadVars
    /\ InitToolVars
    /\ InitSvcVars
    /\ InitWaitVars

Next ==
    \/ \E tool \in ActionTools, sel \in ActionSelectors : BeginAction(tool, sel)
    \/ FinishAction
    \/ \E sel \in SwitchInputs : SwitchToFrame(sel)
    \/ GetPageContent
    \/ AutoTimerFires
    \/ RemovalFires

Spec == Init /\ [][Next]_vars

\* the same program when the page's event loop runs every timer that is due: the
\* 3000 ms timer of highlight and the fade-out timers
SpecTimers == Spec /\ WF_vars(AutoTimerFires) /\ WF_vars(RemovalFires)

\* ------------------------------------------------------------------ polling waits
textDefaultTimeout == 30000
textCheckInterval == 500
accordionDefaultTimeout == 10000
accordionCheckInterval == 200

\* String.prototype.toLowerCase over the letters the pages use
LowerChar(c) == IF c = "H" THEN "h" ELSE IF c = "I" THEN "i" ELSE c
toLowerCase(str) == [i \in 1..Len(str) |-> LowerChar(str[i])]

\* n is rendered: neither it nor an ancestor in its tree is hidden
RECURSIVE Rendered(_)
Rendered(n) ==
    /\ ~dom[n].hidden
    /\ (parentElement(n) = Null \/ parentElement(n) = Body \/ Rendered(parentElement(n)))

\* the rendered text of the elements of one tree, in document order, one line
\* per element that has text
RECURSIVE JoinLines(_)
JoinLines(lines) ==
    IF lines = <<>> THEN <<>>
    ELSE IF Len(lines) = 1 THEN lines[1]
    ELSE lines[1] \o <<"\n">> \o JoinLines(Tail(lines))

TreeText(root) ==
    LET all == SortedSeq(AllIn(root))
        shown == SelectSeq(all, LAMBDA n : Rendered(n) /\ dom[n].text # <<>>)
    IN JoinLines([i \in 1..Len(shown) |-> dom[shown[i]].text])

\* innerText does not descend into shadow trees: document.body.innerText is the
\* rendered text of the light DOM
innerText(root) == TreeText(root)

\* searchInNode(root) of wait_for_text: the text test is made only when root is
\* an Element or a Document (a ShadowRoot is neither), then every shadow root
\* below root is searched
RECURSIVE searchInNode(_, _)
searchInNode(root, searchText) ==
    LET textContent == IF root.kind = "doc" THEN innerText(root) ELSE <<>>
        all == SortedSeq(AllIn(root))
    IN \/ /\ textContent # <<>>
          /\ Includes(toLowerCase(textContent), toLowerCase(searchText))
       \/ \E i \in 1..Len(all) :
             hasShadowRoot(all[i]) /\ searchInNode(ShadowRootOf(all[i]), searchText)

TextTimeoutInputs == {0, 1000}
SearchTexts == {<<"h", "I">>, <<"x">>}
PageTexts == {<<>>, <<"H", "i">>}

\* wait_for_text: startTime, timeout
StartWaitForText(searchText, t) ==
    /\ wt.pc = "idle"
    /\ wt' = [NoWait EXCEPT !.tool = "wait_for_text", !.pc = "test",
                            !.text = searchText,
                            !.timeout = IF t = 0 THEN textDefaultTimeout ELSE t]
    /\ UNCHANGED <<pageVars, snapVars, loadVars, toolVars, overlayVars, svcVars>>

\* while (Date.now() - startTime < timeout), and the timeout return after it
TextLoopTest ==
    /\ wt.tool = "wait_for_text"
    /\ wt.pc = "test"
    /\ wt' = IF wt.elapsed < wt.timeout
             THEN [wt EXCEPT !.pc = "poll"]
             ELSE [wt EXCEPT !.pc = "idle", !.result = "timeout"]
    /\ UNCHANGED <<pageVars, snapVars, loadVars, toolVars, overlayVars, svcVars>>

\* the text of the page as the reader of the page sees it: the rendered text of
\* the main document and of every shadow tree in it
VisibleTexts ==
    {TreeText(r) : r \in {getRootNode(n) : n \in {m \in Nodes : dom[m].frame = 0}}}

TextPresent(searchText) ==
    \E t \in VisibleTexts : Includes(toLowerCase(t), toLowerCase(searchText))

\* one poll: page.evaluate(searchInNode(document)) and the test of found
TextPoll ==
    /\ wt.tool = "wait_for_text"
    /\ wt.pc = "poll"
    /\ LET found == searchInNode(Document(0), wt.text)
           polled1 == [wt EXCEPT !.present = @ \/ TextPresent(wt.text),
                                !.polls = @ + 1]
       IN wt' = IF found
                THEN [polled1 EXCEPT !.pc = "idle", !.result = "found"]
                ELSE [polled1 EXCEPT !.pc = "sleep"]
    /\ UNCHANGED <<pageVars, snapVars, loadVars, toolVars, overlayVars, svcVars>>

\* setTimeout(resolve, checkInterval)
TextSleep ==
    /\ wt.tool = "wait_for_text"
    /\ wt.pc = "sleep"
    /\ wt' = [wt EXCEPT !.pc = "test", !.elapsed = @ + textCheckInterval]
    /\ UNCHANGED <<pageVars, snapVars, loadVars, toolVars, overlayVars, svcVars>>

\* the page renders or clears the text of one of its elements
SetText(n, t) ==
    /\ n \in Nodes
    /\ dom[n].tag = "p"
    /\ dom[n].text # t
    /\ dom' = [dom EXCEPT ![n].text = t, ![n].textLen = Len(t)]
    /\ UNCHANGED <<frames, currentFrame, snapVars, loadVars, toolVars, overlayVars,
                   svcVars, waitVars>>

\* ---- wait_for_accordion_expand
AccordionTimeoutInputs == {0, 400}
AccordionSelectors == {<<IdSeg("a")>>, <<IdSeg("n")>>, <<IdSeg("z")>>}
ExpandedValues == {"", "true", "false"}

\* what one poll reads: "null" when findElement finds nothing, else the value of
\* the element's aria-expanded attribute ("" when it has none)
AccordionRead(doc, sel) ==
    LET element == findElement(Document(doc), sel)
    IN IF element = 0 THEN "null" ELSE dom[element].expanded

\* a poll that takes any aria-expanded value for expanded
AccordionOutcomeAnyValue(read) ==
    IF read = "null" THEN "not_found"
    ELSE IF read # "" THEN "expanded"
    ELSE "continue"

\* isExpanded === null, isExpanded (getAttribute('aria-expanded') === 'true'),
\* or neither
AccordionOutcome(read) ==
    IF read = "null" THEN "not_found"
    ELSE IF read = "true" THEN "expanded"
    ELSE "continue"

StartWaitForAccordion(sel, t) ==
    /\ wt.pc = "idle"
    /\ wt' = [NoWait EXCEPT !.tool = "wait_for_accordion_expand", !.pc = "test",
                            !.selector = sel, !.target = TargetDoc,
                            !.timeout = IF t = 0 THEN accordionDefaultTimeout ELSE t]
    /\ UNCHANGED <<pageVars, snapVars, loadVars, toolVars, overlayVars, svcVars>>

AccordionLoopTest ==
    /\ wt.tool = "wait_for_accordion_expand"
    /\ wt.pc = "test"
    /\ wt' = IF wt.elapsed < wt.timeout
             THEN [wt EXCEPT !.pc = "poll"]
             ELSE [wt EXCEPT !.pc = "idle", !.result = "timeout"]
    /\ UNCHANGED <<pageVars, snapVars, loadVars, toolVars, overlayVars, svcVars>>

AccordionPoll ==
    /\ wt.tool = "wait_for_accordion_expand"
    /\ wt.pc = "poll"
    /\ LET read == AccordionRead(wt.target, wt.selector)
           outcome == AccordionOutcome(read)
           polled1 == [wt EXCEPT !.seen = read, !.polls = @ + 1,
                                !.earlier = IF wt.seen = "none" THEN @ ELSE @ \cup {wt.seen}]
       IN wt' = IF outcome = "continue"
                THEN [polled1 EXCEPT !.pc = "sleep"]
                ELSE [polled1 EXCEPT !.pc = "idle", !.result = outcome]
    /\ UNCHANGED <<pageVars, snapVars, loadVars, toolVars, overlayVars, svcVars>>

AccordionSleep ==
    /\ wt.tool = "wait_for_accordion_expand"
    /\ wt.pc = "sleep"
    /\ wt' = [wt EXCEPT !.pc = "test", !.elapsed = @ + accordionCheckInterval]
    /\ UNCHANGED <<pageVars, snapVars, loadVars, toolVars, overlayVars, svcVars>>

\* the page sets, changes or removes the aria-expanded attribute of an element
SetExpanded(n, v) ==
    /\ n \in Nodes
    /\ dom[n].tag = "p"
    /\ dom[n].expanded # v
    /\ dom' = [dom EXCEPT ![n].expanded = v]
    /\ UNCHANGED <<frames, currentFrame, snapVars, loadVars, toolVars, overlayVars,
                   svcVars, waitVars>>

\* the page removes the element a selector names (its id is taken away)
DropId(n) ==
    /\ n \in Nodes
    /\ dom[n].tag = "p"
    /\ dom[n].id # ""
    /\ dom' = [dom EXCEPT ![n].id = ""]
    /\ UNCHANGED <<frames, currentFrame, snapVars, loadVars, toolVars, overlayVars,
                   svcVars, waitVars>>

\* the page the waits watch: a paragraph, and a paragraph inside a shadow root
\* nested in another shadow root
WaitPage(lightText, shadowText) ==
    << [Element(0, FALSE, "p", "a", 0) EXCEPT !.text = lightText, !.textLen = Len(lightText)],
       Element(0, FALSE, "div", "h", 0),
       Element(2, TRUE, "div", "k", 0),
       [Element(3, TRUE, "p", "n", 0) EXCEPT !.text = shadowText, !.textLen = Len(shadowText)] >>

InitWait ==
    /\ \E lightText \in PageTexts, shadowText \in PageTexts :
          dom = WaitPage(lightText, shadowText)
    /\ frames = <<MainFrame>>
    /\ currentFrame = NoFrame
    /\ InitSnapVars
    /\ InitLoadVars
    /\ InitToolVars
    /\ InitSvcVars
    /\ InitWaitVars

NextWait ==
    \/ \E searchText \in SearchTexts, t \in TextTimeoutInputs : StartWaitForText(searchText, t)
    \/ TextLoopTest
    \/ TextPoll
    \/ TextSleep
    \/ \E sel \in AccordionSelectors, t \in AccordionTimeoutInputs : StartWaitForAccordion(sel, t)
    \/ AccordionLoopTest
    \/ AccordionPoll
    \/ AccordionSleep
    \/ \E n \in 1..4, t \in PageTexts : SetText(n, t)
    \/ \E n \in 1..4, v \in ExpandedValues : SetExpanded(n, v)
    \/ \E n \in 1..4 : DropId(n)

SpecWait == InitWait /\ [][NextWait]_vars

\* ---- the three polling waits when every poll and every sleep completes
\* the page wait_for_page_load watches has no paragraph; the page of the other
\* two waits keeps its first paragraph
LoadingPage == \A n \in Nodes : dom[n].tag # "p"

InitWaits == InitLoad \/ InitWait

\* the steps of wait_for_text and wait_for_accordion_expand, while the page
\* changes its first paragraph
NextWaitFirstParagraph ==
    \/ \E searchText \in SearchTexts, t \in TextTimeoutInputs : StartWaitForText(searchText, t)
    \/ TextLoopTest
    \/ TextPoll
    \/ TextSleep
    \/ \E sel \in AccordionSelectors, t \in AccordionTimeoutInputs : StartWaitForAccordion(sel, t)
    \/ AccordionLoopTest
    \/ AccordionPoll
    \/ AccordionSleep
    \/ \E t \in PageTexts : SetText(1, t)
    \/ \E v \in ExpandedValues : SetExpanded(1, v)
    \/ DropId(1)

NextWaits == (LoadingPage /\ NextLoad) \/ (~LoadingPage /\ NextWaitFirstParagraph)

\* a sleep, a network wait or a loop test of the call that is running
WaitTimerStep ==
    \/ LoopTest \/ NetworkIdle \/ Sleep
    \/ TextLoopTest \/ TextSleep
    \/ AccordionLoopTest \/ AccordionSleep

\* the poll of the call that is running, and the states in which one is due
WaitPollStep == CountPoll \/ TextPoll \/ AccordionPoll
PollDue == plPc = "count" \/ wt.pc = "poll"

\* each await of the loops resolves: waitForNetworkIdle resolves or is given up
\* at its own timeout, setTimeout fires, and page.evaluate returns (weak
\* fairness of the poll, with the states that enable it written out)
SpecWaits ==
    /\ InitWaits
    /\ [][NextWaits]_vars
    /\ WF_vars(WaitTimerStep)
    /\ ([]<>(~PollDue) \/ []<><<WaitPollStep>>_vars)

\* ------------------------------------------------------------------ the service
\* AppController.execute starts AppService.execute and does not await it; each
\* started call is a process that runs from one await to the next.

\* SseService.createSession(): a session under a fresh id
createSession(s) ==
    /\ sessions[s].state = "none"
    /\ \A r \in SessionIds : r < s => sessions[r].state # "none"
    /\ sessions' = [sessions EXCEPT ![s].state = "open"]
    /\ UNCHANGED <<nav, browsers, procs, pageVars, snapVars, loadVars, toolVars,
                   overlayVars, waitVars>>

\* SseService.deleteSession(sessionId): the session leaves the map; calls that
\* hold the session object keep using it
deleteSession(s) ==
    /\ sessions[s].state = "open"
    /\ sessions' = [sessions EXCEPT ![s].state = "deleted"]
    /\ UNCHANGED <<nav, browsers, procs, pageVars, snapVars, loadVars, toolVars,
                   overlayVars, waitVars>>

\* session.agent.invoke(...) as far as its first await: AgentNavigator.invoke
\* throws when this.agent is unset, else awaits the agent
InvokeStart(st, p) ==
    IF st.nav.agent = 0
    THEN [st EXCEPT !.procs[p].pc = "failed", !.procs[p].error = "agent_not_initialized"]
    ELSE [st EXCEPT !.procs[p].pc = "invoking"]

\* a create() that launches a browser on every call
CreateStartAlwaysLaunches(st, p) == [st EXCEPT !.procs[p].pc = "launching"]

\* AgentNavigator.create() as far as its first await, or to its end
CreateStart(st, p) ==
    IF st.nav.browserInstance = 0
    THEN [st EXCEPT !.procs[p].pc = "launching"]
    ELSE IF st.nav.agent = 0
    THEN [st EXCEPT !.nav.agent = st.nav.browserInstance, !.nav.created = TRUE,
                    !.procs[p].pc = "created"]
    ELSE [st EXCEPT !.procs[p].pc = "created", !.nav.created = TRUE]

\* an iteration that uses the session id without looking the session up
IterationStartNoLookup(st, p) ==
    LET me == st.procs[p]
    IN IF me.step > me.steps THEN [st EXCEPT !.procs[p].pc = "done"]
       ELSE IF ~st.sessions[me.uuid].agent THEN CreateStart(st, p)
       ELSE InvokeStart(st, p)

\* one iteration of the for loop of execute, from getSession to the first await
IterationStart(st, p) ==
    LET me == st.procs[p]
    IN IF me.step > me.steps THEN [st EXCEPT !.procs[p].pc = "done"]
       ELSE IF st.sessions[me.uuid].state # "open"
       THEN [st EXCEPT !.procs[p].pc = "failed", !.procs[p].error = "session_not_found"]
       ELSE IF ~st.sessions[me.uuid].agent THEN CreateStart(st, p)
       ELSE InvokeStart(st, p)

ServiceState == [sessions |-> sessions, nav |-> nav, procs |-> procs]

Becomes(st) ==
    /\ sessions' = st.sessions
    /\ nav' = st.nav
    /\ procs' = st.procs

\* POST /: AppController.execute calls appService.execute(sessionId, task)
Post(p, uuid, steps) ==
    /\ procs[p].pc = "idle"
    /\ \A q \in ProcIds : q < p => procs[q].pc # "idle"
    /\ Becomes(IterationStart(
           [ServiceState EXCEPT !.procs[p] =
               [NoProc EXCEPT !.uuid = uuid, !.steps = steps, !.step = 1]], p))
    /\ UNCHANGED <<browsers, pageVars, snapVars, loadVars, toolVars, overlayVars,
                   waitVars>>

\* puppeteer.launch resolves inside launchBrowser: the navigator takes the new
\* browser, and create() goes on to createAgent when no agent is set
LaunchDone(p) ==
    /\ procs[p].pc = "launching"
    /\ Cardinality(browsers) < MaxBrowsers
    /\ LET b == Cardinality(browsers) + 1
       IN /\ browsers' = browsers \cup {b}
          /\ nav' = [nav EXCEPT !.browserInstance = b,
                                 !.agent = IF nav.agent = 0 THEN b ELSE nav.agent,
                                 !.created = TRUE]
    /\ procs' = [procs EXCEPT ![p].pc = "created"]
    /\ UNCHANGED <<sessions, pageVars, snapVars, loadVars, toolVars, overlayVars,
                   waitVars>>

\* await this.navigator.create() resolves: session.agent = this.navigator, then
\* session.agent.invoke
CreateDone(p) ==
    /\ procs[p].pc = "created"
    /\ Becomes(InvokeStart(
           [ServiceState EXCEPT !.sessions[procs[p].uuid].agent = TRUE], p))
    /\ UNCHANGED <<browsers, pageVars, snapVars, loadVars, toolVars, overlayVars,
                   waitVars>>

\* the agent's response arrives: session.sendMessage, then the next iteration
InvokeDone(p) ==
    /\ procs[p].pc = "invoking"
    /\ Becomes(IterationStart(
           [ServiceState EXCEPT
               !.sessions[procs[p].uuid].sent = Append(@, <<p, procs[p].step>>),
               !.procs[p].step = @ + 1], p))
    /\ UNCHANGED <<browsers, pageVars, snapVars, loadVars, toolVars, overlayVars,
                   waitVars>>

\* the agent's invoke rejects: execute rejects with it
InvokeRejects(p) ==
    /\ procs[p].pc = "invoking"
    /\ procs' = [procs EXCEPT ![p].pc = "failed", ![p].error = "invoke_rejected"]
    /\ UNCHANGED <<sessions, nav, browsers, pageVars, snapVars, loadVars, toolVars,
                   overlayVars, waitVars>>

\* AgentNavigator.destroy() with a browser instance set, as far as
\* await this.browserInstance.browser.close(); with no browser instance the call
\* returns at once and changes nothing
DestroyStart ==
    /\ nav.closing = 0
    /\ nav.browserInstance # 0
    /\ nav' = [nav EXCEPT !.closing = nav.browserInstance]
    /\ UNCHANGED <<sessions, browsers, procs, pageVars, snapVars, loadVars, toolVars,
                   overlayVars, waitVars>>

\* browser.close() resolves: browserInstance = undefined, agent = undefined
DestroyDone ==
    /\ nav.closing # 0
    /\ nav' = [nav EXCEPT !.browserInstance = 0, !.agent = 0, !.closing = 0,
                          !.closed = @ \cup {nav.closing}, !.created = FALSE]
    /\ UNCHANGED <<sessions, browsers, procs, pageVars, snapVars, loadVars, toolVars,
                   overlayVars, waitVars>>

InitService ==
    /\ dom = <<>>
    /\ frames = <<MainFrame>>
    /\ currentFrame = NoFrame
    /\ InitSnapVars
    /\ InitLoadVars
    /\ InitToolVars
    /\ InitSvcVars
    /\ InitWaitVars

NextService ==
    \/ \E s \in SessionIds : createSession(s)
    \/ \E s \in SessionIds : deleteSession(s)
    \/ \E p \in ProcIds, uuid \in SessionIds, steps \in 1..MaxSteps : Post(p, uuid, steps)
    \/ \E p \in ProcIds : LaunchDone(p)
    \/ \E p \in ProcIds : CreateDone(p)
    \/ \E p \in ProcIds : InvokeDone(p)
    \/ \E p \in ProcIds : InvokeRejects(p)
    \/ DestroyStart
    \/ DestroyDone

SpecService == InitService /\ [][NextService]_vars

\* ------------------------------------------------------------------ claims: snapshot
\* the scope a record's selector is to be evaluated against
Scope(r) == IF r.inShadowDom THEN getRootNode(r.node) ELSE Document(TargetDoc)

IsIdSelector(sel, id) ==
    /\ Len(sel) = 1
    /\ sel[1].kind = "id"
    /\ sel[1].id = (IF id = "1" THEN "\\31 " ELSE id)

IdCountInDocument(id) ==
    Cardinality({m \in AllIn(Document(TargetDoc)) : dom[m].id = id})

\* C1: every record's selector, evaluated against its scope on the unchanged DOM,
\* matches exactly one node, the node the record was built from.
C1_RoundTrip ==
    \A k \in 1..Len(snap) :
        querySelectorAll(Scope(snap[k]), snap[k].selector) = {snap[k].node}

\* C8: an element outside any shadow root whose non-empty id is matched by exactly
\* one element of the document gets exactly '#' + escaped id.
C8_UniqueIdGivesIdSelector ==
    \A k \in 1..Len(snap) :
        (/\ ~snap[k].inShadowDom
         /\ dom[snap[k].node].id # ""
         /\ IdCountInDocument(dom[snap[k].node].id) = 1)
        => IsIdSelector(snap[k].selector, dom[snap[k].node].id)

C8_Witness ==
    \E k \in 1..Len(snap) :
        /\ ~snap[k].inShadowDom
        /\ dom[snap[k].node].id = "1"
        /\ IdCountInDocument("1") = 1
        /\ dom[snap[k].node].parent # Body
        /\ snap[k].selector = <<[kind |-> "id", id |-> "\\31 ", tag |-> "", nth |-> 0]>>

\* C9: an element inside a shadow root that has a non-empty id gets '#id', and the
\* document-wide uniqueness of the id is not queried for it.
C9_ShadowIdUnverified ==
    \A k \in 1..Len(snap) :
        (snap[k].inShadowDom /\ dom[snap[k].node].id # "")
        => /\ IsIdSelector(snap[k].selector, dom[snap[k].node].id)
           /\ ~snap[k].uniqChecked

C9_Witness ==
    \E k \in 1..Len(snap) :
        /\ snap[k].inShadowDom
        /\ dom[snap[k].node].id = "a"
        /\ \E m \in Nodes : m # snap[k].node /\ dom[m].id = "a"
        /\ IsIdSelector(snap[k].selector, "a")

SnapNodes == {snap[k].node : k \in 1..Len(snap)}

\* the ancestor of n that is `dist` parentElement steps above it (Null: none)
RECURSIVE AncestorAt(_, _)
AncestorAt(n, dist) ==
    IF n = Null \/ n = Body THEN Null
    ELSE IF dist = 0 THEN n
    ELSE AncestorAt(parentElement(n), dist - 1)

\* the button ancestors of n in its own tree that are at most `limit` levels up
ButtonAncestors(n, limit) ==
    {a \in Nodes : /\ dom[a].tag = "button"
                   /\ \E dist \in 1..limit : AncestorAt(n, dist) = a}

PlainText(n) ==
    dom[n].tag \in TextTags /\ dom[n].textLen > 0 /\ ~dom[n].cursor

\* C6: a span or p with text, nested in a button at any depth and without
\* cursor:pointer, is not in the snapshot, and the enclosing visible button is.
C6_TextInButtonExcluded ==
    snapCount >= 1 =>
        \A n \in Nodes : \A a \in ButtonAncestors(n, Len(dom)) :
            PlainText(n) =>
                /\ n \notin SnapNodes
                /\ isElementVisible(a) => a \in SnapNodes

\* C6 amended: the same for a button among the five nearest ancestors.
C6_TextInNearButtonExcluded ==
    snapCount >= 1 =>
        \A n \in Nodes : \A a \in ButtonAncestors(n, 5) :
            PlainText(n) =>
                /\ n \notin SnapNodes
                /\ isElementVisible(a) => a \in SnapNodes

C6_Witness ==
    /\ snapCount >= 1
    /\ \E n \in Nodes : \E a \in ButtonAncestors(n, 5) :
          /\ PlainText(n)
          /\ AncestorAt(n, 5) = a
          /\ dom[n].role = "button"
          /\ dom[n].textLen = 3
          /\ getRootNode(n).kind = "shadow"
          /\ n \notin SnapNodes
          /\ a \in SnapNodes

\* ------------------------------------------------------------------ claims: page load
Last(w) == w[Len(w)]

\* C3: success is returned only after the count was observed unchanged across at
\* least 3 consecutive polls.
C3_SuccessAfterThreeEqualPolls ==
    plResult.kind = "success" =>
        /\ Len(polled) >= 3
        /\ polled[Len(polled) - 1] = Last(polled)
        /\ polled[Len(polled) - 2] = Last(polled)

C3_Witness ==
    /\ plResult.kind = "success"
    /\ Len(polled) = MaxPolled
    /\ plResult.count = 2
    /\ \A i \in 1..Len(polled) : polled[i] = 2

\* C4: every poll whose count differs from the previous poll's, and every poll that
\* counts zero, leaves the stability counter at zero; success reports the non-zero
\* count of the last poll; timeout reports the count of the last poll that ran.
C4_ResetAndReportedCount ==
    /\ (/\ Len(polled) >= 1
        /\ \/ Last(polled) = 0
           \/ Len(polled) >= 2 /\ polled[Len(polled) - 1] # Last(polled))
       => stableCount = 0
    /\ plResult.kind = "success" =>
          plResult.count > 0 /\ plResult.count = Last(polled)
    /\ (plResult.kind = "timeout" /\ Len(polled) >= 1) =>
          plResult.count = Last(polled)

C4_Witness ==
    /\ plResult.kind = "timeout"
    /\ Len(polled) >= 3
    /\ Last(polled) = 2
    /\ polled[Len(polled) - 1] = 1
    /\ polled[Len(polled) - 2] = 1
    /\ plResult.count = 2

\* ------------------------------------------------------------------ claims: tools
Finished == call.phase \in {"returned", "threw"}

\* the elements sel matches in the light DOM of any document
LightMatches(sel) ==
    {n \in Nodes : getRootNode(n).kind = "doc" /\ n \in querySelectorAll(getRootNode(n), sel)}

\* the elements sel matches inside the shadow roots of any document
ShadowMatches(sel) ==
    {n \in Nodes : getRootNode(n).kind = "shadow" /\ n \in querySelectorAll(getRootNode(n), sel)}

\* C2: element_click with a selector that matches nothing in the light DOM and in
\* no shadow root returns an element-not-found string; it does not throw.
C2_ClickAbsentReturnsError ==
    (/\ call.tool = "element_click"
     /\ Finished
     /\ LightMatches(call.selector) = {}
     /\ ShadowMatches(call.selector) = {})
    => call.phase = "returned" /\ call.kind = "not_found"

C7_MainClearsFrame ==
    /\ (call.tool = "switch_to_frame" /\ call.input = StrMain) => currentFrame = NoFrame
    /\ (/\ call.tool \in {"get_page_content", "element_click", "element_type"}
        /\ currentFrame = NoFrame) => call.target = 0

C7_Witness ==
    /\ call.tool = "switch_to_frame"
    /\ call.input = StrMain
    /\ call.kind = "main"
    /\ currentFrame = NoFrame
    /\ frames[2].name = StrMain
    /\ expando[6].set

\* ------------------------------------------------------------------ claims: registry
\* C11: within one snapshot the record indices are 0..n-1 in the order the walker
\* discovered the nodes (the stored index is the record's position in the
\* rendered list), and every parentId that is present is a smaller index.
C11_DenseIndicesSmallerParent ==
    LET collected == collectElements(Document(TargetDoc), <<>>)
    IN snapCount > 0 =>
        /\ Len(snap) = Len(collected)
        /\ \A k \in 1..Len(snap) :
              /\ snap[k].index = k - 1
              /\ snap[k].node = collected[k].node
              /\ snap[k].parentId # -1 =>
                    snap[k].parentId >= 0 /\ snap[k].parentId < snap[k].index

C11_Witness ==
    /\ snapCount > 0
    /\ Len(snap) = 3
    /\ snap[2].parentId = 0
    /\ snap[3].parentId = 1
    /\ snap[3].index = 2

\* ------------------------------------------------------------------ claims: service
\* the execute() calls that are inside session.agent.invoke for session s
Invoking(s) == {p \in ProcIds : procs[p].pc = "invoking" /\ procs[p].uuid = s}

\* C12: invocations of a session run one at a time: no invocation for a session
\* starts while another invocation for the same session is in progress.
C12_OneInvocationPerSession ==
    \A s \in SessionIds : Cardinality(Invoking(s)) <= 1

\* ------------------------------------------------------------------ claims: highlighter
\* C13: at every moment at most one highlight overlay element exists in the page,
\* whatever the order of highlight calls, removeHighlight calls and timer expiries.
C13_AtMostOneOverlay == Len(overlays) <= 1

C13_Witness ==
    /\ Len(overlays) = 1
    /\ ~overlays[1].faded
    /\ autoTimer # 0
    /\ removals # {}
    /\ overlays[1].id \notin removals

\* ------------------------------------------------------------------ claims: waits
WaitReturned(tool) == wt.tool = tool /\ wt.pc = "idle"

\* C14: wait_for_text returns found iff some poll before the timeout finds the
\* text, case-insensitively, in the visible text of the document or of any
\* nested shadow subtree; otherwise it returns the timeout string.
C14_FoundIffTextPresent ==
    WaitReturned("wait_for_text") =>
        /\ wt.result \in {"found", "timeout"}
        /\ wt.result = "found" <=> wt.present

C16_NoToolCallThrows ==
    \A tool \in ActionTools \cup {"get_page_content", "switch_to_frame"} :
        (call.tool = tool /\ Finished) => call.phase = "returned"

\* C17: for every click, type or select that is applied, a new highlight overlay
\* bound to the element the action resolves to is rendered before the action,
\* whichever way the element was resolved.
C17_HighlightOnResolvedElement ==
    (call.tool \in ActionTools /\ call.phase = "returned" /\ call.acted # 0)
    => call.highlighted = call.acted

\* ------------------------------------------------------------------ claims: text rule
TextElements == {n \in Nodes : dom[n].tag \in TextTags}
HasAttrs(n) == dom[n].handler # "none" \/ dom[n].role # ""
InShadowTree(n) == getRootNode(n).kind = "shadow"

\* the ordered rule as stated: at least 2 characters first; then cursor decides
\* inside a button; else attributes; else 3 characters in a shadow tree
StatedTextRule(n) ==
    /\ dom[n].textLen >= 2
    /\ IF ButtonAncestors(n, 5) # {} THEN dom[n].cursor
       ELSE IF HasAttrs(n) THEN TRUE
       ELSE IF InShadowTree(n) THEN dom[n].textLen >= 3
       ELSE FALSE

\* the rule with cursor:pointer tested before the text length
CursorFirstTextRule(n) ==
    \/ dom[n].cursor
    \/ /\ dom[n].textLen >= 2
       /\ ButtonAncestors(n, 5) = {}
       /\ HasAttrs(n) \/ (InShadowTree(n) /\ dom[n].textLen >= 3)

\* C18: the interactivity decision for a span or p equals the ordered rule as
\* stated, for every combination of text length, button ancestor, cursor,
\* attributes and shadow origin; a visible span or p is in the snapshot iff the
\* rule includes it.
C18_TextRuleAsStated ==
    \A n \in TextElements :
        /\ isElementInteractive(n) <=> StatedTextRule(n)
        /\ snapCount >= 1 => (n \in SnapNodes <=> (isElementVisible(n) /\ StatedTextRule(n)))

\* C18 amended: a span or p with cursor:pointer is interactive whatever its text
\* length; without it the stated rule applies.
C18_TextRuleCursorFirst ==
    \A n \in TextElements :
        /\ isElementInteractive(n) <=> CursorFirstTextRule(n)
        /\ snapCount >= 1 =>
              (n \in SnapNodes <=> (isElementVisible(n) /\ CursorFirstTextRule(n)))

C18_Witness ==
    /\ snapCount >= 1
    /\ \E n \in TextElements :
          /\ dom[n].cursor
          /\ dom[n].textLen = 1
          /\ ButtonAncestors(n, 5) = {}
          /\ ~HasAttrs(n)
          /\ ~InShadowTree(n)
          /\ n \in SnapNodes

\* ------------------------------------------------------------------ claims: path selector
\* the segment of one element of the chain
StatedSegment(n) ==
    TagSeg(dom[n].tag,
           IF Cardinality(SameTagSiblings(n)) > 1 THEN TypeIndex(n) ELSE 0)

\* the chain from n upward, ending with '#id' at the first ancestor that bears
\* an id, or with the segment of the element just below the scope boundary
RECURSIVE StatedPath(_)
StatedPath(n) ==
    IF dom[n].id # "" THEN <<IdSeg(CssEscape(dom[n].id))>>
    ELSE IF parentElement(n) = Null \/ parentElement(n) = Body THEN <<StatedSegment(n)>>
    ELSE StatedPath(parentElement(n)) \o <<StatedSegment(n)>>

\* C19: for a node without an id the selector is the chain of segments from the
\* node upward, ending with '#id' at the first ancestor with an id or at the
\* scope boundary (body, or the owning shadow root); a segment carries
\* :nth-of-type(k) exactly when the parent has several children of that tag.
C19_PathSelectorUpToBoundary ==
    \A k \in 1..Len(snap) :
        snap[k].id = "" => snap[k].selector = StatedPath(snap[k].node)

\* C20: outside shadow DOM the bare '#id' selector is returned only if exactly
\* one element of the document has that id; an element whose id is shared gets a
\* different, path-based selector.
C20_IdSelectorOnlyIfUnique ==
    \A k \in 1..Len(snap) :
        (/\ ~snap[k].inShadowDom
         /\ snap[k].id # ""
         /\ IsIdSelector(snap[k].selector, snap[k].id))
        => IdCountInDocument(snap[k].id) = 1

\* ------------------------------------------------------------------ claims: parentId
\* the nearest element on the parentElement chain above n that is a record of the
\* current snapshot, wherever that record sits in the list (0: none)
RECURSIVE NearestRecordAncestor(_)
NearestRecordAncestor(current) ==
    IF current = Null \/ current = Body THEN 0
    ELSE IF current \in SnapNodes THEN current
    ELSE NearestRecordAncestor(parentElement(current))

IndexOfRecord(n) == snap[CHOOSE j \in 1..Len(snap) : snap[j].node = n].index

\* C21: the parentId of a record is the index of the nearest ancestor of its node
\* along the parentElement chain that is a record of the same snapshot, whatever
\* the position of that record in the list, and it is absent exactly when no
\* ancestor on the chain is a record.
C21_ParentIdIsNearestRecordAncestor ==
    snapCount > 0 =>
        \A k \in 1..Len(snap) :
            LET a == NearestRecordAncestor(parentElement(snap[k].node))
            IN IF a = 0 THEN snap[k].parentId = -1
               ELSE snap[k].parentId = IndexOfRecord(a)

\* a record whose parent element is no record while a farther ancestor is
C21_Witness ==
    /\ snapCount > 0
    /\ \E k \in 1..Len(snap) :
          /\ snap[k].parentId # -1
          /\ parentElement(snap[k].node) \notin SnapNodes
          /\ parentElement(snap[k].node) # Null

\* ------------------------------------------------------------------ claims: frames
\* C22: a switch_to_frame call that finds no matching frame returns the 'Frame
\* not found' string listing every frame of the page with its index, name and
\* url, and the current-frame pointer after the call is the one before it.
C22_NotFoundKeepsFrame ==
    [][(call'.tool = "switch_to_frame" /\ call'.kind = "frame_not_found") =>
            /\ currentFrame' = currentFrame
            /\ Len(call'.listed) = Len(frames)
            /\ \A i \in 1..Len(frames) :
                  call'.listed[i] = [index |-> i - 1, name |-> frames[i].name,
                                     url |-> frames[i].url]]_vars

\* a frame was current, the call found no frame, and that frame is still current
C22_Witness ==
    /\ call.tool = "switch_to_frame"
    /\ call.kind = "frame_not_found"
    /\ call.input = <<"x">>
    /\ currentFrame = 2
    /\ Len(call.listed) = 2

\* C23: after switch_to_frame with a decimal index string i, 0 <= i < number of
\* frames of the page, the current frame is the i-th frame of the page's frame
\* list.
C23_IndexSelectsThatFrame ==
    (/\ call.tool = "switch_to_frame"
     /\ IsDigits(call.input)
     /\ ParseInt(call.input) < Len(frames))
        => currentFrame = ParseInt(call.input) + 1

\* C24: while a frame is current, the element an element_click or element_type
\* call clicked, focused or typed into belongs to the document of the current
\* frame; no such call acts on an element of another document.
C24_ActsInsideCurrentFrame ==
    (/\ call.tool \in {"element_click", "element_type"}
     /\ call.phase = "returned"
     /\ call.acted # 0
     /\ currentFrame # NoFrame)
        => dom[call.acted].frame = frames[currentFrame].doc

\* ------------------------------------------------------------------ claims: selector present
\* C25: every record of a snapshot has a non-empty selector, wherever its node
\* sits: in the document or at any position inside a shadow root.
C25_SelectorNeverEmpty ==
    snapCount > 0 => \A k \in 1..Len(snap) : snap[k].selector # <<>>

\* ------------------------------------------------------------------ claims: lifecycle
\* C26: the agent is set only if the browser instance is set, and it is set
\* exactly when a create() has run to its end since construction or since the
\* last destroy() cleared the navigator; an invoke reaches the agent only then
\* and fails with 'Agent not initialized' only otherwise; create() starts a
\* browser launch only when no browser instance is set; destroy() clears the
\* browser instance and the agent together.
C26_NavigatorLifecycle ==
    /\ [](nav.agent # 0 => nav.browserInstance # 0)
    /\ [](nav.agent # 0 <=> nav.created)
    /\ [][/\ \A p \in ProcIds :
              /\ (procs'[p] # procs[p] /\ procs'[p].pc = "invoking") => nav'.created
              /\ (procs'[p] # procs[p] /\ procs'[p].error = "agent_not_initialized")
                    => ~nav'.created
              /\ (procs[p].pc # "launching" /\ procs'[p].pc = "launching")
                    => nav.browserInstance = 0 /\ ~nav.created
          /\ (nav.closing # 0 /\ nav'.closing = 0)
                => nav'.browserInstance = 0 /\ nav'.agent = 0]_vars

\* one call has finished its task through the agent, the navigator was destroyed
\* afterwards, and a later call on a session that holds the navigator failed
\* with 'Agent not initialized'
C26_Witness ==
    /\ nav.closed # {}
    /\ nav.agent = 0
    /\ \E p, q \in ProcIds :
          /\ procs[p].pc = "done"
          /\ procs[q].pc = "failed"
          /\ procs[q].error = "agent_not_initialized"

\* the browsers that were launched and that no destroy() has closed or is closing
LiveBrowsers == browsers \ (nav.closed \cup {nav.closing})

\* C27: across any interleaving of overlapping create() calls on the navigator,
\* at most one launched browser is running and every running browser is the one
\* the navigator refers to.
C27_OneReferencedBrowser ==
    /\ Cardinality(LiveBrowsers) <= 1
    /\ \A b \in LiveBrowsers : nav.browserInstance = b

\* ------------------------------------------------------------------ claims: steps in order
\* the messages execute() call p has sent to its session, in the order sent
SentBy(p) ==
    IF procs[p].uuid = 0 THEN <<>>
    ELSE SelectSeq(sessions[procs[p].uuid].sent, LAMBDA m : m[1] = p)

\* call p begins a step in this transition: its first, or the one after a response
StepBegins(p) ==
    /\ procs'[p].step # procs[p].step
    /\ procs'[p].step <= procs'[p].steps

\* C28: one execute() call works through its steps in order: the messages it has
\* sent are those of steps 1..k-1, one each and in that order, while it is at
\* step k, so the agent is invoked for step k only after the response of step
\* k-1 was sent; a step that begins while the session is not in the session map
\* fails the call with the session-not-found error and invokes nothing, and a
\* failed call takes no further step.
C28_StepsInOrder ==
    /\ [](\A p \in ProcIds :
            /\ Len(SentBy(p)) = (IF procs[p].pc = "idle" THEN 0 ELSE procs[p].step - 1)
            /\ \A k \in 1..Len(SentBy(p)) : SentBy(p)[k] = <<p, k>>
            /\ procs[p].pc \in {"launching", "created", "invoking"}
                   => procs[p].step <= procs[p].steps)
    /\ [][\A p \in ProcIds :
            /\ StepBegins(p) =>
                  IF sessions'[procs'[p].uuid].state = "open"
                  THEN procs'[p].pc \in {"launching", "created", "invoking"}
                       \/ procs'[p].error = "agent_not_initialized"
                  ELSE procs'[p].pc = "failed" /\ procs'[p].error = "session_not_found"
            /\ procs[p].pc = "failed" => procs'[p] = procs[p]]_vars

\* a call sent the response of its first step, found its session deleted when
\* the second step began and failed without a second message
C28_Witness ==
    \E p \in ProcIds :
        /\ procs[p].pc = "failed"
        /\ procs[p].error = "session_not_found"
        /\ procs[p].steps = 2
        /\ procs[p].step = 2
        /\ SentBy(p) = <<(<<p, 1>>)>>
        /\ \E q \in ProcIds : procs[q].pc = "done" /\ Len(SentBy(q)) = 2

\* ------------------------------------------------------------------ claims: overlay timers
\* overlay o of this state is faded by the transition, and removed by it
Fades(o) ==
    /\ ~o.faded
    /\ \E i \in 1..Len(overlays') : overlays'[i].id = o.id /\ overlays'[i].faded
Removed(o) == o.id \notin {overlays'[i].id : i \in 1..Len(overlays')}

RemoveHighlightStep == call.phase # "running" /\ call'.phase = "running"
HighlightStep == call.phase = "running" /\ call'.phase # "running"

\* C29: a rendered overlay is faded only by the 3000 ms timer its own highlight()
\* set or by the removeHighlight of a later action, and it leaves the page only
\* through a later highlight() or through the fade-out timer scheduled for it
\* after it was faded; no other timer touches it; and every rendered overlay
\* eventually leaves the page.
C29_OverlayLifetime ==
    /\ [][\A i \in 1..Len(overlays) :
            LET o == overlays[i]
            IN /\ Fades(o) => RemoveHighlightStep \/ (autoTimer = o.id /\ autoTimer' = 0)
               /\ Removed(o) => HighlightStep \/ (o.faded /\ o.id \in removals \ removals')
               /\ (~Fades(o) /\ ~Removed(o)) =>
                      \E j \in 1..Len(overlays') : overlays'[j] = o]_vars
    /\ \A id \in 1..MaxOverlayIds :
          (id \in OverlayIds) ~> (id \notin OverlayIds)

\* an overlay rendered by a later action is in the page, not faded, with its own
\* timer pending, while the fade-out timer of an earlier overlay is still due
C29_Witness ==
    /\ Len(overlays) = 1
    /\ ~overlays[1].faded
    /\ autoTimer = overlays[1].id
    /\ removals # {}
    /\ overlays[1].id \notin removals

\* ------------------------------------------------------------------ claims: termination
\* the interval of the wait that is running
WaitInterval ==
    IF wt.tool = "wait_for_text" THEN textCheckInterval ELSE accordionCheckInterval

====
